---- MODULE Spec2Model ----
(***************************************************************************)
(* Mergington High School activities API (src/src/app.py): a SQLite store  *)
(* of two tables, activities and registrations, seeded at startup, and the *)
(* handlers GET /activities, POST /activities/{name}/signup and            *)
(* DELETE /activities/{name}/unregister.                                   *)
(*                                                                         *)
(* TEXT values are TLA+ strings; Utf8 gives their bytes, which is what     *)
(* SQLite's default BINARY collation compares in ORDER BY.  A table is the *)
(* set of its rows (both tables have a primary key).  The handlers are     *)
(* plain def functions, which FastAPI runs in worker threads: a request is *)
(* a sequence of SQL statements, and the statements of requests served at  *)
(* the same time interleave.                                               *)
(***************************************************************************)
EXTENDS Integers, Sequences, FiniteSets, TLC

VARIABLES
    schema,         \* names of the tables that exist in activities.db
    activities,     \* committed rows of table activities
    registrations,  \* committed rows of table registrations
    txn,            \* the open write transaction: owner, rows, rowcount
    pc,             \* per worker thread: the statement it is about to run
    req,            \* per worker thread: the request it is serving
    resp,           \* per worker thread: the response of a finished request
    activities_rows, \* per worker thread: the rows fetch_activities read
    activities_dict, \* per worker thread: the dict fetch_activities builds
    before,         \* per thread: the registrations its request found
    after,          \* per thread: the registrations its request left
    alone,          \* per thread: no other request has run since it began
    boot            \* the store the last init_db found, until a request begins

vars == <<schema, activities, registrations, txn, pc, req, resp,
          activities_rows, activities_dict, before, after, alone, boot>>

(***************************************************************************)
(* Bounds of the exploration.                                              *)
(***************************************************************************)
NumStudents == 10   \* students who sign up for Math Club in CapSpec
NumThreads == 2     \* worker threads serving requests

(***************************************************************************)
(* The seed constant, in the dict's insertion order.                       *)
(***************************************************************************)
INITIAL_ACTIVITIES ==
    <<
    [name |-> "Chess Club",
     description |-> "Learn strategies and compete in chess tournaments",
     schedule |-> "Fridays, 3:30 PM - 5:00 PM",
     max_participants |-> 12,
     participants |-> <<"michael@mergington.edu", "daniel@mergington.edu">>],
    [name |-> "Programming Class",
     description |-> "Learn programming fundamentals and build software projects",
     schedule |-> "Tuesdays and Thursdays, 3:30 PM - 4:30 PM",
     max_participants |-> 20,
     participants |-> <<"emma@mergington.edu", "sophia@mergington.edu">>],
    [name |-> "Gym Class",
     description |-> "Physical education and sports activities",
     schedule |-> "Mondays, Wednesdays, Fridays, 2:00 PM - 3:00 PM",
     max_participants |-> 30,
     participants |-> <<"john@mergington.edu", "olivia@mergington.edu">>],
    [name |-> "Soccer Team",
     description |-> "Join the school soccer team and compete in matches",
     schedule |-> "Tuesdays and Thursdays, 4:00 PM - 5:30 PM",
     max_participants |-> 22,
     participants |-> <<"liam@mergington.edu", "noah@mergington.edu">>],
    [name |-> "Basketball Team",
     description |-> "Practice and play basketball with the school team",
     schedule |-> "Wednesdays and Fridays, 3:30 PM - 5:00 PM",
     max_participants |-> 15,
     participants |-> <<"ava@mergington.edu", "mia@mergington.edu">>],
    [name |-> "Art Club",
     description |-> "Explore your creativity through painting and drawing",
     schedule |-> "Thursdays, 3:30 PM - 5:00 PM",
     max_participants |-> 15,
     participants |-> <<"amelia@mergington.edu", "harper@mergington.edu">>],
    [name |-> "Drama Club",
     description |-> "Act, direct, and produce plays and performances",
     schedule |-> "Mondays and Wednesdays, 4:00 PM - 5:30 PM",
     max_participants |-> 20,
     participants |-> <<"ella@mergington.edu", "scarlett@mergington.edu">>],
    [name |-> "Math Club",
     description |-> "Solve challenging problems and participate in math competitions",
     schedule |-> "Tuesdays, 3:30 PM - 4:30 PM",
     max_participants |-> 10,
     participants |-> <<"james@mergington.edu", "benjamin@mergington.edu">>],
    [name |-> "Debate Team",
     description |-> "Develop public speaking and argumentation skills",
     schedule |-> "Fridays, 4:00 PM - 5:30 PM",
     max_participants |-> 12,
     participants |-> <<"charlotte@mergington.edu", "henry@mergington.edu">>]
    >>

Utf8(s) ==
    CASE s = "Chess Club" -> <<67, 104, 101, 115, 115, 32, 67, 108, 117, 98>>
      [] s = "Programming Class" -> <<80, 114, 111, 103, 114, 97, 109, 109, 105, 110, 103, 32, 67, 108, 97, 115, 115>>
      [] s = "Gym Class" -> <<71, 121, 109, 32, 67, 108, 97, 115, 115>>
      [] s = "Soccer Team" -> <<83, 111, 99, 99, 101, 114, 32, 84, 101, 97, 109>>
      [] s = "Basketball Team" -> <<66, 97, 115, 107, 101, 116, 98, 97, 108, 108, 32, 84, 101, 97, 109>>
      [] s = "Art Club" -> <<65, 114, 116, 32, 67, 108, 117, 98>>
      [] s = "Drama Club" -> <<68, 114, 97, 109, 97, 32, 67, 108, 117, 98>>
      [] s = "Math Club" -> <<77, 97, 116, 104, 32, 67, 108, 117, 98>>
      [] s = "Debate Team" -> <<68, 101, 98, 97, 116, 101, 32, 84, 101, 97, 109>>
      [] s = "Knitting Club" -> <<75, 110, 105, 116, 116, 105, 110, 103, 32, 67, 108, 117, 98>>
      [] s = "michael@mergington.edu" -> <<109, 105, 99, 104, 97, 101, 108, 64, 109, 101, 114, 103, 105, 110, 103, 116, 111, 110, 46, 101, 100, 117>>
      [] s = "daniel@mergington.edu" -> <<100, 97, 110, 105, 101, 108, 64, 109, 101, 114, 103, 105, 110, 103, 116, 111, 110, 46, 101, 100, 117>>
      [] s = "emma@mergington.edu" -> <<101, 109, 109, 97, 64, 109, 101, 114, 103, 105, 110, 103, 116, 111, 110, 46, 101, 100, 117>>
      [] s = "sophia@mergington.edu" -> <<115, 111, 112, 104, 105, 97, 64, 109, 101, 114, 103, 105, 110, 103, 116, 111, 110, 46, 101, 100, 117>>
      [] s = "john@mergington.edu" -> <<106, 111, 104, 110, 64, 109, 101, 114, 103, 105, 110, 103, 116, 111, 110, 46, 101, 100, 117>>
      [] s = "olivia@mergington.edu" -> <<111, 108, 105, 118, 105, 97, 64, 109, 101, 114, 103, 105, 110, 103, 116, 111, 110, 46, 101, 100, 117>>
      [] s = "liam@mergington.edu" -> <<108, 105, 97, 109, 64, 109, 101, 114, 103, 105, 110, 103, 116, 111, 110, 46, 101, 100, 117>>
      [] s = "noah@mergington.edu" -> <<110, 111, 97, 104, 64, 109, 101, 114, 103, 105, 110, 103, 116, 111, 110, 46, 101, 100, 117>>
      [] s = "ava@mergington.edu" -> <<97, 118, 97, 64, 109, 101, 114, 103, 105, 110, 103, 116, 111, 110, 46, 101, 100, 117>>
      [] s = "mia@mergington.edu" -> <<109, 105, 97, 64, 109, 101, 114, 103, 105, 110, 103, 116, 111, 110, 46, 101, 100, 117>>
      [] s = "amelia@mergington.edu" -> <<97, 109, 101, 108, 105, 97, 64, 109, 101, 114, 103, 105, 110, 103, 116, 111, 110, 46, 101, 100, 117>>
      [] s = "harper@mergington.edu" -> <<104, 97, 114, 112, 101, 114, 64, 109, 101, 114, 103, 105, 110, 103, 116, 111, 110, 46, 101, 100, 117>>
      [] s = "ella@mergington.edu" -> <<101, 108, 108, 97, 64, 109, 101, 114, 103, 105, 110, 103, 116, 111, 110, 46, 101, 100, 117>>
      [] s = "scarlett@mergington.edu" -> <<115, 99, 97, 114, 108, 101, 116, 116, 64, 109, 101, 114, 103, 105, 110, 103, 116, 111, 110, 46, 101, 100, 117>>
      [] s = "james@mergington.edu" -> <<106, 97, 109, 101, 115, 64, 109, 101, 114, 103, 105, 110, 103, 116, 111, 110, 46, 101, 100, 117>>
      [] s = "benjamin@mergington.edu" -> <<98, 101, 110, 106, 97, 109, 105, 110, 64, 109, 101, 114, 103, 105, 110, 103, 116, 111, 110, 46, 101, 100, 117>>
      [] s = "charlotte@mergington.edu" -> <<99, 104, 97, 114, 108, 111, 116, 116, 101, 64, 109, 101, 114, 103, 105, 110, 103, 116, 111, 110, 46, 101, 100, 117>>
      [] s = "henry@mergington.edu" -> <<104, 101, 110, 114, 121, 64, 109, 101, 114, 103, 105, 110, 103, 116, 111, 110, 46, 101, 100, 117>>
      [] s = "new@mergington.edu" -> <<110, 101, 119, 64, 109, 101, 114, 103, 105, 110, 103, 116, 111, 110, 46, 101, 100, 117>>
      [] s = "aaron@mergington.edu" -> <<97, 97, 114, 111, 110, 64, 109, 101, 114, 103, 105, 110, 103, 116, 111, 110, 46, 101, 100, 117>>
      [] s = "student01@mergington.edu" -> <<115, 116, 117, 100, 101, 110, 116, 48, 49, 64, 109, 101, 114, 103, 105, 110, 103, 116, 111, 110, 46, 101, 100, 117>>
      [] s = "student02@mergington.edu" -> <<115, 116, 117, 100, 101, 110, 116, 48, 50, 64, 109, 101, 114, 103, 105, 110, 103, 116, 111, 110, 46, 101, 100, 117>>
      [] s = "student03@mergington.edu" -> <<115, 116, 117, 100, 101, 110, 116, 48, 51, 64, 109, 101, 114, 103, 105, 110, 103, 116, 111, 110, 46, 101, 100, 117>>
      [] s = "student04@mergington.edu" -> <<115, 116, 117, 100, 101, 110, 116, 48, 52, 64, 109, 101, 114, 103, 105, 110, 103, 116, 111, 110, 46, 101, 100, 117>>
      [] s = "student05@mergington.edu" -> <<115, 116, 117, 100, 101, 110, 116, 48, 53, 64, 109, 101, 114, 103, 105, 110, 103, 116, 111, 110, 46, 101, 100, 117>>
      [] s = "student06@mergington.edu" -> <<115, 116, 117, 100, 101, 110, 116, 48, 54, 64, 109, 101, 114, 103, 105, 110, 103, 116, 111, 110, 46, 101, 100, 117>>
      [] s = "student07@mergington.edu" -> <<115, 116, 117, 100, 101, 110, 116, 48, 55, 64, 109, 101, 114, 103, 105, 110, 103, 116, 111, 110, 46, 101, 100, 117>>
      [] s = "student08@mergington.edu" -> <<115, 116, 117, 100, 101, 110, 116, 48, 56, 64, 109, 101, 114, 103, 105, 110, 103, 116, 111, 110, 46, 101, 100, 117>>
      [] s = "student09@mergington.edu" -> <<115, 116, 117, 100, 101, 110, 116, 48, 57, 64, 109, 101, 114, 103, 105, 110, 103, 116, 111, 110, 46, 101, 100, 117>>
      [] s = "student10@mergington.edu" -> <<115, 116, 117, 100, 101, 110, 116, 49, 48, 64, 109, 101, 114, 103, 105, 110, 103, 116, 111, 110, 46, 101, 100, 117>>
      [] s = "student11@mergington.edu" -> <<115, 116, 117, 100, 101, 110, 116, 49, 49, 64, 109, 101, 114, 103, 105, 110, 103, 116, 111, 110, 46, 101, 100, 117>>
      [] s = "student12@mergington.edu" -> <<115, 116, 117, 100, 101, 110, 116, 49, 50, 64, 109, 101, 114, 103, 105, 110, 103, 116, 111, 110, 46, 101, 100, 117>>

StudentEmail ==
    <<"student01@mergington.edu", "student02@mergington.edu", "student03@mergington.edu", "student04@mergington.edu", "student05@mergington.edu", "student06@mergington.edu", "student07@mergington.edu", "student08@mergington.edu", "student09@mergington.edu", "student10@mergington.edu", "student11@mergington.edu", "student12@mergington.edu">>

(***************************************************************************)
(* The store engine: SQLite's BINARY collation and the SQL statements the  *)
(* handlers run.  A db is [schema, activities, registrations].             *)
(***************************************************************************)
Min(a, b) == IF a < b THEN a ELSE b

\* memcmp over the common prefix, from byte i on: -1, 0 or 1.
RECURSIVE MemCmp(_, _, _, _)
MemCmp(x, y, i, n) ==
    IF i > n THEN 0
    ELSE IF x[i] < y[i] THEN -1
    ELSE IF x[i] > y[i] THEN 1
    ELSE MemCmp(x, y, i + 1, n)

\* BINARY collation: memcmp of the common prefix, then the shorter first.
BinaryCompare(s, t) ==
    LET x == Utf8(s)
        y == Utf8(t)
        c == MemCmp(x, y, 1, Min(Len(x), Len(y)))
    IN  IF c # 0 THEN c
        ELSE IF Len(x) < Len(y) THEN -1
        ELSE IF Len(x) > Len(y) THEN 1
        ELSE 0

\* The sorter: row r put into the sorted run `run`, before the first row whose
\* key is greater (keys are primary keys: no two are equal).
RECURSIVE SortedInsertName(_, _)
SortedInsertName(run, r) ==
    IF run = <<>> THEN <<r>>
    ELSE IF BinaryCompare(r.name, Head(run).name) < 0 THEN <<r>> \o run
    ELSE <<Head(run)>> \o SortedInsertName(Tail(run), r)

\* SELECT ... FROM activities ORDER BY name
RECURSIVE OrderByName(_)
OrderByName(rows) ==
    IF rows = {} THEN <<>>
    ELSE LET r == CHOOSE q \in rows : TRUE
         IN  SortedInsertName(OrderByName(rows \ {r}), r)

\* Faulty variant of SortedInsertEmail: the comparison the other way round,
\* which is ORDER BY email DESC.
RECURSIVE SortedInsertEmail_Descending(_, _)
SortedInsertEmail_Descending(run, r) ==
    IF run = <<>> THEN <<r>>
    ELSE IF BinaryCompare(r.email, Head(run).email) > 0 THEN <<r>> \o run
    ELSE <<Head(run)>> \o SortedInsertEmail_Descending(Tail(run), r)

RECURSIVE SortedInsertEmail(_, _)
SortedInsertEmail(run, r) ==
    IF run = <<>> THEN <<r>>
    ELSE IF BinaryCompare(r.email, Head(run).email) < 0 THEN <<r>> \o run
    ELSE <<Head(run)>> \o SortedInsertEmail(Tail(run), r)

\* SELECT email FROM registrations ... ORDER BY email
RECURSIVE OrderByEmail(_)
OrderByEmail(rows) ==
    IF rows = {} THEN <<>>
    ELSE LET r == CHOOSE q \in rows : TRUE
         IN  SortedInsertEmail(OrderByEmail(rows \ {r}), r)

\* Faulty variant of SelectActivity: the WHERE clause left out.
SelectActivity_NoWhere(db, activity_name) == db.activities

\* SELECT name FROM activities WHERE name = ?
SelectActivity(db, activity_name) ==
    {r \in db.activities : r.name = activity_name}

\* Faulty variant of SelectRegistration: the email left out of the WHERE clause.
SelectRegistration_AnyEmail(db, activity_name, email) ==
    {r \in db.registrations : r.activity_name = activity_name}

\* SELECT 1 FROM registrations WHERE activity_name = ? AND email = ?
SelectRegistration(db, activity_name, email) ==
    {r \in db.registrations :
        r.activity_name = activity_name /\ r.email = email}

\* SELECT email FROM registrations WHERE activity_name = ?
SelectParticipants(db, activity_name) ==
    {r \in db.registrations : r.activity_name = activity_name}

\* INSERT INTO activities: PRIMARY KEY (name), CHECK (max_participants > 0).
\* A constraint failure raises sqlite3.IntegrityError and inserts nothing.
InsertActivity(db, row) ==
    IF \/ \E r \in db.activities : r.name = row.name
       \/ ~(row.max_participants > 0)
    THEN [ok |-> FALSE, db |-> db]
    ELSE [ok |-> TRUE,
          db |-> [db EXCEPT !.activities = @ \cup {row}]]

\* INSERT INTO registrations: PRIMARY KEY (activity_name, email),
\* FOREIGN KEY (activity_name) REFERENCES activities(name), foreign_keys = ON.
InsertRegistration(db, activity_name, email) ==
    IF \/ \E r \in db.registrations :
            r.activity_name = activity_name /\ r.email = email
       \/ ~(\E a \in db.activities : a.name = activity_name)
    THEN [ok |-> FALSE, db |-> db]
    ELSE [ok |-> TRUE,
          db |-> [db EXCEPT !.registrations =
                    @ \cup {[activity_name |-> activity_name,
                             email |-> email]}]]

\* Faulty variant of DeleteRegistration: the email left out of the WHERE clause.
DeleteRegistration_ByActivity(db, activity_name, email) ==
    LET hit == {r \in db.registrations : r.activity_name = activity_name}
    IN  [rowcount |-> Cardinality(hit),
         db |-> [db EXCEPT !.registrations = @ \ hit]]

\* Faulty variant of DeleteRegistration: the activity left out of the WHERE
\* clause.
DeleteRegistration_ByEmail(db, activity_name, email) ==
    LET hit == {r \in db.registrations : r.email = email}
    IN  [rowcount |-> Cardinality(hit),
         db |-> [db EXCEPT !.registrations = @ \ hit]]

\* DELETE FROM registrations WHERE activity_name = ? AND email = ?
DeleteRegistration(db, activity_name, email) ==
    LET hit == {r \in db.registrations :
                    r.activity_name = activity_name /\ r.email = email}
    IN  [rowcount |-> Cardinality(hit),
         db |-> [db EXCEPT !.registrations = @ \ hit]]

(***************************************************************************)
(* init_db                                                                 *)
(***************************************************************************)
\* CREATE TABLE IF NOT EXISTS activities / registrations
CreateTables(db) ==
    [db EXCEPT !.schema = @ \cup {"activities", "registrations"}]

\* Faulty variant of SeedParticipants: the loop left after its first round.
SeedParticipants_FirstOnly(acc, details, j) ==
    IF ~acc.ok \/ j > Len(details.participants) THEN acc
    ELSE InsertRegistration(acc.db, details.name, details.participants[j])

\* The inner loop of the seeding: the participants of one seed activity,
\* from the j-th on.  ok is FALSE once an INSERT has raised.
RECURSIVE SeedParticipants(_, _, _)
SeedParticipants(acc, details, j) ==
    IF ~acc.ok \/ j > Len(details.participants) THEN acc
    ELSE SeedParticipants(
            InsertRegistration(acc.db, details.name, details.participants[j]),
            details, j + 1)

\* The outer loop: the seed activities from the i-th on.
RECURSIVE SeedActivities(_, _)
SeedActivities(acc, i) ==
    IF ~acc.ok \/ i > Len(INITIAL_ACTIVITIES) THEN acc
    ELSE LET details == INITIAL_ACTIVITIES[i]
             row == [name |-> details.name,
                     description |-> details.description,
                     schedule |-> details.schedule,
                     max_participants |-> details.max_participants]
         IN  SeedActivities(
                SeedParticipants(InsertActivity(acc.db, row), details, 1),
                i + 1)

\* SELECT COUNT(*) AS count FROM activities
CountActivities(db) == Cardinality(db.activities)

\* Faulty variant of init_db: no look at the count, the seed put back at
\* every start (INSERT OR IGNORE).
init_db_Reseed(db) ==
    LET created == CreateTables(db)
    IN  [created EXCEPT
            !.activities = @ \cup
                {[name |-> INITIAL_ACTIVITIES[i].name,
                  description |-> INITIAL_ACTIVITIES[i].description,
                  schedule |-> INITIAL_ACTIVITIES[i].schedule,
                  max_participants |-> INITIAL_ACTIVITIES[i].max_participants] :
                    i \in DOMAIN INITIAL_ACTIVITIES},
            !.registrations = @ \cup
                UNION {{[activity_name |-> INITIAL_ACTIVITIES[i].name,
                         email |-> INITIAL_ACTIVITIES[i].participants[j]] :
                            j \in DOMAIN INITIAL_ACTIVITIES[i].participants} :
                        i \in DOMAIN INITIAL_ACTIVITIES}]

\* init_db: the tables, then the seed when activities is empty.  The INSERTs
\* are one transaction, committed when the with block ends, rolled back when
\* an INSERT raises.
init_db(db) ==
    LET created == CreateTables(db)
        existing_count == CountActivities(created)
    IN  IF existing_count = 0
        THEN LET seeded == SeedActivities([ok |-> TRUE, db |-> created], 1)
             IN  IF seeded.ok THEN seeded.db ELSE created
        ELSE created

(***************************************************************************)
(* fetch_activities: the listing is a dict in the order its keys were set, *)
(* modelled as the sequence of its <<key, value>> items.                   *)
(***************************************************************************)
\* participant_rows of one activity, as the list of their emails
Participants(db, activity_name) ==
    LET participant_rows == OrderByEmail(SelectParticipants(db, activity_name))
    IN  [k \in 1..Len(participant_rows) |-> participant_rows[k].email]

\* activities[row["name"]] = {...}: the item of one row of activities_rows,
\* its participants read from db
ActivityItem(db, row) ==
    <<row.name,
      [description |-> row.description,
       schedule |-> row.schedule,
       max_participants |-> row.max_participants,
       participants |-> Participants(db, row.name)]>>

(***************************************************************************)
(* Responses.  exception names the exception that ended the handler when   *)
(* it was no HTTPException: the server then answers 500.                   *)
(***************************************************************************)
HTTPException(status_code, detail) ==
    [status |-> status_code, body |-> [detail |-> detail], exception |-> ""]

Response(body) ==
    [status |-> 200, body |-> body, exception |-> ""]

ServerError(exception) ==
    [status |-> 500, body |-> "Internal Server Error", exception |-> exception]

(***************************************************************************)
(* The requests explored.                                                  *)
(***************************************************************************)
Request(op, activity_name, email) ==
    [op |-> op, activity_name |-> activity_name, email |-> email]

\* Spec: a seeded participant and a student who is not seeded, two seeded
\* activities and a name that is in no table.
Pairs ==
    {<<"Chess Club", "daniel@mergington.edu">>,
     <<"Chess Club", "new@mergington.edu">>,
     <<"Art Club", "daniel@mergington.edu">>,
     <<"Knitting Club", "daniel@mergington.edu">>}

Requests ==
    {Request(op, p[1], p[2]) : op \in {"signup", "unregister"}, p \in Pairs}

\* ListSpec: listings, with signups and unregisters beside them.
ListPairs ==
    {<<"Chess Club", "new@mergington.edu">>,
     <<"Art Club", "daniel@mergington.edu">>}

ListRequests ==
    {Request("list", "", "")} \cup
    {Request(op, p[1], p[2]) : op \in {"signup", "unregister"},
                               p \in ListPairs}

\* CapSpec: a class of students signs up for Math Club in roll order, a
\* student once those before are registered.
Students == 1..NumStudents

InRollOrder(i) ==
    \A j \in 1..(i - 1) :
        [activity_name |-> "Math Club", email |-> StudentEmail[j]]
            \in registrations

Threads == 1..NumThreads

(***************************************************************************)
(* State.                                                                  *)
(***************************************************************************)
Store ==
    [schema |-> schema, activities |-> activities,
     registrations |-> registrations]

NoStore == [schema |-> {}, activities |-> {}, registrations |-> {}]

NoRequest == Request("none", "", "")

NoResponse == [status |-> 0, body |-> "", exception |-> ""]

NoTxn == [owner |-> 0, registrations |-> {}, rowcount |-> -1]

NoBoot == [clean |-> FALSE, before |-> NoStore]

\* The locals of fetch_activities.
fetched == <<activities_rows, activities_dict>>

\* What is recorded of the requests, for the properties to speak of.
history == <<before, after, alone, boot>>

\* activities.db does not exist before the first startup.
Init ==
    /\ schema = {}
    /\ activities = {}
    /\ registrations = {}
    /\ txn = NoTxn
    /\ pc = [t \in Threads |-> "idle"]
    /\ req = [t \in Threads |-> NoRequest]
    /\ resp = [t \in Threads |-> NoResponse]
    /\ activities_rows = [t \in Threads |-> <<>>]
    /\ activities_dict = [t \in Threads |-> <<>>]
    /\ before = [t \in Threads |-> {}]
    /\ after = [t \in Threads |-> {}]
    /\ alone = [t \in Threads |-> FALSE]
    /\ boot = NoBoot

\* The app serves requests once its startup event has run init_db.
Started == schema = {"activities", "registrations"}

Idle == \A t \in Threads : pc[t] = "idle"

\* The handler has returned or raised: the thread runs no statement.
AtRest(t) == pc[t] \in {"idle", "done"}

Commit(db) ==
    /\ schema' = db.schema
    /\ activities' = db.activities
    /\ registrations' = db.registrations

\* The handler returns or raises without having written.
Finished(t, response) ==
    /\ pc' = [pc EXCEPT ![t] = "done"]
    /\ resp' = [resp EXCEPT ![t] = response]
    /\ after' = [after EXCEPT ![t] = registrations]
    /\ UNCHANGED <<before, alone, boot>>

Goto(t, label) ==
    /\ pc' = [pc EXCEPT ![t] = label]
    /\ UNCHANGED <<resp, history>>

(***************************************************************************)
(* startup_event, at every start of the process.  A process that stops     *)
(* takes its worker threads with it, so none is in a request when the next *)
(* one starts.                                                             *)
(***************************************************************************)
Startup ==
    /\ Idle
    /\ Commit(init_db(Store))
    /\ boot' = [clean |-> TRUE, before |-> Store]
    /\ UNCHANGED <<txn, pc, req, resp, fetched, before, after, alone>>

(***************************************************************************)
(* A request, one SQL statement per step.  Every handler opens its own     *)
(* connection.  sqlite3 leaves a SELECT outside any transaction and opens  *)
(* one, implicitly, before an INSERT or a DELETE; the with block commits   *)
(* it, or rolls it back when the block raises.  SQLite admits one write    *)
(* transaction at a time: a second writer waits in the busy handler, until *)
(* the first has ended or the connection's timeout (5 s) has passed.       *)
(* A SELECT sees the committed rows only.                                  *)
(***************************************************************************)
\* A request arrives and a free worker thread takes it.
Begin(t, r) ==
    /\ Started
    /\ pc[t] = "idle"
    /\ req' = [req EXCEPT ![t] = r]
    /\ pc' = [pc EXCEPT ![t] = IF r.op = "list" THEN "select_activities"
                               ELSE "select_activity"]
    /\ before' = [before EXCEPT ![t] = registrations]
    /\ alone' = [u \in Threads |->
                    IF u = t THEN \A v \in Threads \ {t} : AtRest(v)
                    ELSE IF AtRest(u) THEN alone[u]
                    ELSE FALSE]
    /\ boot' = NoBoot
    /\ UNCHANGED <<schema, activities, registrations, txn, resp, fetched,
                   after>>

\* fetch_activities: activities_rows = SELECT ... FROM activities ORDER BY name
ListActivitiesStep(t) ==
    /\ pc[t] = "select_activities"
    /\ LET selected == OrderByName(activities)
       IN  /\ activities_rows' = [activities_rows EXCEPT ![t] = selected]
           /\ activities_dict' = [activities_dict EXCEPT ![t] = <<>>]
           /\ IF selected = <<>>
              THEN Finished(t, Response(<<>>))
              ELSE Goto(t, "select_participants")
    /\ UNCHANGED <<schema, activities, registrations, txn, req>>

\* fetch_activities: one round of the loop, participant_rows of the next row
\* and its entry in the dict; after the last round, the return
ListParticipantsStep(t) ==
    /\ pc[t] = "select_participants"
    /\ LET row == activities_rows[t][Len(activities_dict[t]) + 1]
           extended == Append(activities_dict[t], ActivityItem(Store, row))
       IN  IF Len(extended) = Len(activities_rows[t])
           THEN /\ Finished(t, Response(extended))
                /\ activities_dict' = [activities_dict EXCEPT ![t] = <<>>]
                /\ activities_rows' = [activities_rows EXCEPT ![t] = <<>>]
           ELSE /\ Goto(t, "select_participants")
                /\ activities_dict' = [activities_dict EXCEPT ![t] = extended]
                /\ UNCHANGED activities_rows
    /\ UNCHANGED <<schema, activities, registrations, txn, req>>

\* activity_row = SELECT name FROM activities WHERE name = ?
\* (both handlers), and the 404 when there is none
SelectActivityStep(t) ==
    /\ pc[t] = "select_activity"
    /\ IF SelectActivity(Store, req[t].activity_name) = {}
       THEN Finished(t, HTTPException(404, "Activity not found"))
       ELSE Goto(t, IF req[t].op = "signup" THEN "select_registration"
                    ELSE "delete")
    /\ UNCHANGED <<schema, activities, registrations, txn, req, fetched>>

\* Faulty variant of SelectRegistrationStep: max_participants enforced.
SelectRegistrationStep_Capped(t) ==
    /\ pc[t] = "select_registration"
    /\ IF SelectRegistration(Store, req[t].activity_name, req[t].email) # {}
       THEN Finished(t, HTTPException(400, "Student is already signed up"))
       ELSE IF Cardinality(SelectParticipants(Store, req[t].activity_name))
                >= (CHOOSE r \in activities :
                        r.name = req[t].activity_name).max_participants
       THEN Finished(t, HTTPException(400, "Activity is full"))
       ELSE Goto(t, "insert")
    /\ UNCHANGED <<schema, activities, registrations, txn, req, fetched>>

\* existing_registration = SELECT 1 FROM registrations WHERE ...
\* and the 400 when there is one
SelectRegistrationStep(t) ==
    /\ pc[t] = "select_registration"
    /\ IF SelectRegistration(Store, req[t].activity_name, req[t].email) # {}
       THEN Finished(t, HTTPException(400, "Student is already signed up"))
       ELSE Goto(t, "insert")
    /\ UNCHANGED <<schema, activities, registrations, txn, req, fetched>>

\* INSERT INTO registrations: BEGIN, then the row goes into the transaction.
\* An INSERT that breaks a constraint raises sqlite3.IntegrityError and
\* leaves the transaction open, for the with block to roll back.
InsertStep(t) ==
    /\ pc[t] = "insert"
    /\ txn.owner = 0
    /\ LET inserted == InsertRegistration(Store, req[t].activity_name,
                                          req[t].email)
       IN  IF ~inserted.ok
           THEN /\ Goto(t, "rollback")
                /\ txn' = [owner |-> t, registrations |-> registrations,
                           rowcount |-> -1]
           ELSE /\ Goto(t, "commit")
                /\ txn' = [owner |-> t,
                           registrations |-> inserted.db.registrations,
                           rowcount |-> 1]
    /\ UNCHANGED <<schema, activities, registrations, req, fetched>>

\* sqlite3.IntegrityError is no HTTPException: the with block rolls back and
\* the server answers 500.
RollbackStep(t) ==
    /\ pc[t] = "rollback"
    /\ txn.owner = t
    /\ txn' = NoTxn
    /\ Finished(t, ServerError("sqlite3.IntegrityError"))
    /\ UNCHANGED <<schema, activities, registrations, req, fetched>>

\* deletion_result = DELETE FROM registrations WHERE ...: BEGIN, then the
\* rows that match leave the transaction.
DeleteStep(t) ==
    /\ pc[t] = "delete"
    /\ txn.owner = 0
    /\ LET deletion_result == DeleteRegistration(Store, req[t].activity_name,
                                                 req[t].email)
       IN  txn' = [owner |-> t,
                   registrations |-> deletion_result.db.registrations,
                   rowcount |-> deletion_result.rowcount]
    /\ Goto(t, "rowcount")
    /\ UNCHANGED <<schema, activities, registrations, req, fetched>>

\* Faulty variant of RowcountStep: rowcount not looked at.
RowcountStep_NoCheck(t) ==
    /\ pc[t] = "rowcount"
    /\ txn.owner = t
    /\ Goto(t, "commit")
    /\ UNCHANGED <<schema, activities, registrations, txn, req, fetched>>

\* if deletion_result.rowcount == 0: the 400, and the with block rolls back
RowcountStep(t) ==
    /\ pc[t] = "rowcount"
    /\ txn.owner = t
    /\ IF txn.rowcount = 0
       THEN /\ txn' = NoTxn
            /\ Finished(t, HTTPException(
                    400, "Student is not signed up for this activity"))
       ELSE /\ Goto(t, "commit")
            /\ UNCHANGED txn
    /\ UNCHANGED <<schema, activities, registrations, req, fetched>>

\* The INSERT or DELETE has waited for the write lock for the whole timeout
\* of sqlite3.connect: sqlite3.OperationalError (database is locked), which
\* is no HTTPException.
BusyTimeout(t) ==
    /\ pc[t] \in {"insert", "delete"}
    /\ txn.owner \notin {0, t}
    /\ Finished(t, ServerError("sqlite3.OperationalError"))
    /\ UNCHANGED <<schema, activities, registrations, txn, req, fetched>>

\* The with block ends without an exception: COMMIT, then the return.
CommitStep(t) ==
    /\ pc[t] = "commit"
    /\ txn.owner = t
    /\ registrations' = txn.registrations
    /\ txn' = NoTxn
    /\ pc' = [pc EXCEPT ![t] = "done"]
    /\ resp' = [resp EXCEPT ![t] = Response(
            [message |->
                IF req[t].op = "signup"
                THEN "Signed up " \o req[t].email \o " for "
                        \o req[t].activity_name
                ELSE "Unregistered " \o req[t].email \o " from "
                        \o req[t].activity_name])]
    /\ after' = [after EXCEPT ![t] = txn.registrations]
    /\ UNCHANGED <<schema, activities, req, fetched, before, alone, boot>>

\* The response is sent and the thread goes back to the pool.
Respond(t) ==
    /\ pc[t] = "done"
    /\ pc' = [pc EXCEPT ![t] = "idle"]
    /\ req' = [req EXCEPT ![t] = NoRequest]
    /\ resp' = [resp EXCEPT ![t] = NoResponse]
    /\ before' = [before EXCEPT ![t] = {}]
    /\ after' = [after EXCEPT ![t] = {}]
    /\ alone' = [alone EXCEPT ![t] = FALSE]
    /\ UNCHANGED <<schema, activities, registrations, txn, fetched, boot>>

\* The next statement of the request thread t is serving.
Step(t) ==
    \/ SelectActivityStep(t)
    \/ SelectRegistrationStep(t)
    \/ InsertStep(t)
    \/ RollbackStep(t)
    \/ DeleteStep(t)
    \/ RowcountStep(t)
    \/ BusyTimeout(t)
    \/ CommitStep(t)
    \/ Respond(t)

Next ==
    \/ Startup
    \/ \E t \in Threads :
        \/ \E r \in Requests : Begin(t, r)
        \/ Step(t)

Spec == Init /\ [][Next]_vars

ListNext ==
    \/ Startup
    \/ \E t \in Threads :
        \/ \E r \in ListRequests : Begin(t, r)
        \/ ListActivitiesStep(t)
        \/ ListParticipantsStep(t)
        \/ Step(t)

ListSpec == Init /\ [][ListNext]_vars

CapNext ==
    \/ Startup
    \/ \E t \in Threads :
        \/ \E i \in Students :
            /\ InRollOrder(i)
            /\ Begin(t, Request("signup", "Math Club", StudentEmail[i]))
        \/ SelectActivityStep(t)
        \/ SelectRegistrationStep(t)
        \/ InsertStep(t)
        \/ RollbackStep(t)
        \/ BusyTimeout(t)
        \/ CommitStep(t)
        \/ Respond(t)

CapSpec == Init /\ [][CapNext]_vars

(***************************************************************************)
(* Vocabulary of the properties.  Of the request thread t is serving or    *)
(* has served, before[t] is the registrations table it found and after[t]  *)
(* the one it left; alone[t] says that it was served alone: no other       *)
(* request was in a handler when it arrived and none has arrived before    *)
(* its handler ended.                                                      *)
(***************************************************************************)
Exists(db, activity_name) == \E r \in db.activities : r.name = activity_name

Pair(activity_name, email) ==
    [activity_name |-> activity_name, email |-> email]

PairOf(r) == Pair(r.activity_name, r.email)

Registered(db, activity_name, email) ==
    Pair(activity_name, email) \in db.registrations

EmailsOf(db, activity_name) ==
    {r.email : r \in {q \in db.registrations :
                        q.activity_name = activity_name}}

Before(t) == [Store EXCEPT !.registrations = before[t]]

After(t) == [Store EXCEPT !.registrations = after[t]]

Done(t, op) == pc[t] = "done" /\ req[t].op = op

Elems(seq) == {seq[k] : k \in DOMAIN seq}

Keys(listing) == {listing[k][1] : k \in DOMAIN listing}

\* listing[activity_name]
Item(listing, activity_name) ==
    listing[CHOOSE k \in DOMAIN listing : listing[k][1] = activity_name][2]

Ascending(seq) ==
    \A k \in 1..(Len(seq) - 1) : BinaryCompare(seq[k], seq[k + 1]) < 0

NotFound(r) ==
    r.status = 404 /\ r.body = [detail |-> "Activity not found"]

Conflict(r) ==
    r.status = 400 /\ r.body = [detail |-> "Student is already signed up"]

InvalidOperation(r) ==
    /\ r.status = 400
    /\ r.body = [detail |-> "Student is not signed up for this activity"]

SamePair(r, s) == r.activity_name = s.activity_name /\ r.email = s.email

SeedIndex == DOMAIN INITIAL_ACTIVITIES

SeedRegistrations ==
    UNION {{Pair(INITIAL_ACTIVITIES[i].name, e) :
                e \in Elems(INITIAL_ACTIVITIES[i].participants)} :
            i \in SeedIndex}

MaxParticipants(db, activity_name) ==
    (CHOOSE r \in db.activities : r.name = activity_name).max_participants

\* Two listings served alone on the same rows are the same listing.
RowsDecideListing ==
    \A t1, t2 \in Threads :
        (/\ Done(t1, "list") /\ alone[t1]
         /\ Done(t2, "list") /\ alone[t2]
         /\ before[t1] = before[t2])
            => resp[t1].body = resp[t2].body

(***************************************************************************)
(* C1: under every interleaving, a signup or unregister of an activity     *)
(* name that is not in the activities table gets no further than the       *)
(* SELECT of the activity and ends with 404 "Activity not found",          *)
(* whatever rows the email has in the registrations table.                 *)
(***************************************************************************)
C1_UnknownActivityIsNotFound ==
    \A t \in Threads :
        (/\ req[t].op \in {"signup", "unregister"}
         /\ ~Exists(Store, req[t].activity_name))
            => /\ pc[t] \in {"select_activity", "done"}
               /\ pc[t] = "done" => NotFound(resp[t])

\* An unregister of a name in no table, by a student who has a registration
\* row elsewhere, has been answered.
C1_Witness ==
    \E t \in Threads :
        /\ Done(t, "unregister")
        /\ ~Exists(Store, req[t].activity_name)
        /\ \E r \in registrations : r.email = req[t].email
        /\ resp[t].status = 404

(***************************************************************************)
(* C2: a signup of an existing activity that is served alone answers 400   *)
(* "Student is already signed up" when the pair is in the registrations    *)
(* table and leaves the table as it is, and answers 200 and registers the  *)
(* pair otherwise; so of two signups of one pair, one after the other, the *)
(* first succeeds and the second is the Conflict.  Under every             *)
(* interleaving, the check of a signup ends in the Conflict exactly when   *)
(* the pair is in the table as the check reads it.                         *)
(***************************************************************************)
C2_ConflictIffRegistered ==
    /\ [](\A t \in Threads :
            (/\ Done(t, "signup") /\ alone[t]
             /\ Exists(Store, req[t].activity_name))
                => /\ Conflict(resp[t])
                        <=> Registered(Before(t), req[t].activity_name,
                                       req[t].email)
                   /\ Conflict(resp[t]) => after[t] = before[t]
                   /\ ~Conflict(resp[t])
                        => /\ resp[t].status = 200
                           /\ Registered(After(t), req[t].activity_name,
                                         req[t].email))
    /\ [][\A t \in Threads :
            (pc[t] = "select_registration" /\ pc'[t] # pc[t])
                => (Conflict(resp'[t])
                        <=> Registered(Store, req[t].activity_name,
                                       req[t].email))]_vars

\* A student who is not in the seed has signed up, and the signup of the
\* same pair that came next has been refused.
C2_Witness ==
    \E t1, t2 \in Threads :
        /\ Done(t1, "signup") /\ alone[t1] /\ resp[t1].status = 200
        /\ Done(t2, "signup") /\ alone[t2] /\ t1 # t2
        /\ SamePair(req[t1], req[t2])
        /\ req[t1].email = "new@mergington.edu"
        /\ before[t2] = after[t1]
        /\ Conflict(resp[t2])

(***************************************************************************)
(* C3: an unregister of an existing activity that is served alone answers  *)
(* 400 "Student is not signed up for this activity" when the pair is not   *)
(* in the registrations table, and answers 200 and removes the pair        *)
(* otherwise; so the repeat of a successful unregister is answered 400.    *)
(* Under every interleaving, an unregister whose DELETE has run ends in    *)
(* the 400 exactly when the pair is not in the table.                      *)
(***************************************************************************)
C3_InvalidIffNotRegistered ==
    /\ [](\A t \in Threads :
            (/\ Done(t, "unregister") /\ alone[t]
             /\ Exists(Store, req[t].activity_name))
                => /\ InvalidOperation(resp[t])
                        <=> ~Registered(Before(t), req[t].activity_name,
                                        req[t].email)
                   /\ InvalidOperation(resp[t]) => after[t] = before[t]
                   /\ ~InvalidOperation(resp[t])
                        => /\ resp[t].status = 200
                           /\ ~Registered(After(t), req[t].activity_name,
                                          req[t].email))
    /\ [][\A t \in Threads :
            (pc[t] = "rowcount" /\ pc'[t] # pc[t])
                => (InvalidOperation(resp'[t])
                        <=> ~Registered(Store, req[t].activity_name,
                                        req[t].email))]_vars

\* A seeded participant has been unregistered, and the unregister of the
\* same pair that came next has been refused.
C3_Witness ==
    \E t1, t2 \in Threads :
        /\ Done(t1, "unregister") /\ alone[t1] /\ resp[t1].status = 200
        /\ Done(t2, "unregister") /\ alone[t2] /\ t1 # t2
        /\ SamePair(req[t1], req[t2])
        /\ before[t2] = after[t1]
        /\ InvalidOperation(resp[t2])

(***************************************************************************)
(* C4: requests served alone.  The listing that finds the table a          *)
(* successful signup(A, e) left has e among A's participants, and          *)
(* otherwise the participants the signup found, of A and of every other    *)
(* activity; the listing that finds the table a successful                 *)
(* unregister(A, e) left has no e among A's participants, and otherwise    *)
(* the participants the unregister found.  A successful unregister(A, e)   *)
(* that finds the table a successful signup(A, e) left leaves the table    *)
(* that signup found, and listings of the same rows are the same.          *)
(***************************************************************************)
C4_RoundTrip ==
    /\ \A t1, t2 \in Threads :
        (/\ pc[t1] = "done" /\ alone[t1] /\ resp[t1].status = 200
         /\ req[t1].op \in {"signup", "unregister"}
         /\ Done(t2, "list") /\ alone[t2]
         /\ before[t2] = after[t1])
            => LET A == req[t1].activity_name
                   e == req[t1].email
                   now == resp[t2].body
               IN  /\ e \in Elems(Item(now, A).participants)
                        <=> req[t1].op = "signup"
                   /\ Elems(Item(now, A).participants) \ {e}
                        = EmailsOf(Before(t1), A) \ {e}
                   /\ \A n \in Keys(now) \ {A} :
                        Elems(Item(now, n).participants)
                            = EmailsOf(Before(t1), n)
    /\ \A t1, t2 \in Threads :
        (/\ Done(t1, "signup") /\ alone[t1] /\ resp[t1].status = 200
         /\ Done(t2, "unregister") /\ alone[t2] /\ resp[t2].status = 200
         /\ SamePair(req[t1], req[t2])
         /\ before[t2] = after[t1])
            => after[t2] = before[t1]
    /\ RowsDecideListing

\* A student who is not in the seed had signed up and has been unregistered,
\* and the listing that came next is without the student.
C4_Witness ==
    \E t1, t2 \in Threads :
        /\ Done(t1, "unregister") /\ alone[t1] /\ resp[t1].status = 200
        /\ req[t1].activity_name = "Chess Club"
        /\ req[t1].email = "new@mergington.edu"
        /\ Done(t2, "list") /\ alone[t2]
        /\ before[t2] = after[t1]
        /\ Item(resp[t2].body, "Chess Club").participants
            = <<"daniel@mergington.edu", "michael@mergington.edu">>

(***************************************************************************)
(* C5: under every interleaving, a listing has one entry per row of        *)
(* activities, in ascending name order, with the row's description,        *)
(* schedule and max_participants, and every entry's participants are in    *)
(* ascending order, none twice, and are exactly the emails registered for  *)
(* the activity when the entry is read.  A listing served alone is decided *)
(* by the rows of the tables it finds, not by the order they came in.      *)
(***************************************************************************)
C5_ListingIsOrdered ==
    /\ [](\A t \in Threads :
            Done(t, "list")
                => LET listing == resp[t].body
                   IN  /\ resp[t].status = 200
                       /\ Len(listing) = Cardinality(activities)
                       /\ Keys(listing) = {r.name : r \in activities}
                       /\ Ascending([k \in DOMAIN listing |-> listing[k][1]])
                       /\ \A r \in activities :
                            LET item == Item(listing, r.name)
                            IN  /\ item.description = r.description
                                /\ item.schedule = r.schedule
                                /\ item.max_participants = r.max_participants
                                /\ Ascending(item.participants)
                                /\ alone[t]
                                    => /\ Elems(item.participants)
                                            = EmailsOf(Before(t), r.name)
                                       /\ Len(item.participants)
                                            = Cardinality(
                                                EmailsOf(Before(t), r.name)))
    /\ []RowsDecideListing
    /\ [][\A t \in Threads :
            (/\ pc[t] = "select_participants"
             /\ (pc'[t] = "done" \/ activities_dict'[t] # activities_dict[t]))
                => LET k == Len(activities_dict[t]) + 1
                       entry == IF pc'[t] = "done" THEN resp'[t].body[k]
                                ELSE activities_dict'[t][k]
                   IN  /\ entry[1] = activities_rows[t][k].name
                       /\ Elems(entry[2].participants)
                            = EmailsOf(Store, entry[1])
                       /\ Len(entry[2].participants)
                            = Cardinality(EmailsOf(Store, entry[1]))]_vars

\* A listing in which students who signed up later stand among the seeded
\* participants.
C5_Witness ==
    \E t \in Threads :
        /\ Done(t, "list") /\ alone[t]
        /\ Item(resp[t].body, "Chess Club").participants
            = <<"daniel@mergington.edu", "michael@mergington.edu",
                "new@mergington.edu">>
        /\ Item(resp[t].body, "Art Club").participants
            = <<"amelia@mergington.edu", "daniel@mergington.edu",
                "harper@mergington.edu">>

(***************************************************************************)
(* C6: init_db on a store whose activities table has a row changes         *)
(* neither table: it re-inserts no seed registration that was removed and  *)
(* removes none that was added.                                            *)
(***************************************************************************)
C6_InitDbIsIdempotent ==
    (boot.clean /\ boot.before.activities # {})
        => /\ activities = boot.before.activities
           /\ registrations = boot.before.registrations
           /\ schema = boot.before.schema

\* init_db has run on a store that lacks a seeded participant and holds a
\* student who is not in the seed.
C6_Witness ==
    /\ boot.clean
    /\ boot.before.activities # {}
    /\ ~Registered(boot.before, "Chess Club", "daniel@mergington.edu")
    /\ Registered(boot.before, "Chess Club", "new@mergington.edu")

(***************************************************************************)
(* C7: init_db on a fresh store leaves exactly the 9 seed activities with  *)
(* their seed description, schedule and max_participants, and exactly the  *)
(* seed participants, two per activity; a listing served alone on these    *)
(* rows is the seed set with each participant list in ascending order.     *)
(***************************************************************************)
C7_FreshStoreIsSeeded ==
    /\ (boot.clean /\ boot.before.activities = {})
        => /\ Cardinality(activities) = 9
           /\ activities =
                {[name |-> INITIAL_ACTIVITIES[i].name,
                  description |-> INITIAL_ACTIVITIES[i].description,
                  schedule |-> INITIAL_ACTIVITIES[i].schedule,
                  max_participants |->
                    INITIAL_ACTIVITIES[i].max_participants] :
                    i \in SeedIndex}
           /\ registrations = SeedRegistrations
           /\ Cardinality(registrations) = 18
           /\ \A i \in SeedIndex :
                Cardinality(EmailsOf(Store, INITIAL_ACTIVITIES[i].name)) = 2
    /\ \A t \in Threads :
        (Done(t, "list") /\ alone[t] /\ before[t] = SeedRegistrations)
            => LET listing == resp[t].body
               IN  /\ Len(listing) = 9
                   /\ \A i \in SeedIndex :
                        LET seed == INITIAL_ACTIVITIES[i]
                            item == Item(listing, seed.name)
                        IN  /\ seed.name \in Keys(listing)
                            /\ item.description = seed.description
                            /\ item.schedule = seed.schedule
                            /\ item.max_participants = seed.max_participants
                            /\ Len(item.participants) = 2
                            /\ Elems(item.participants)
                                = Elems(seed.participants)
                            /\ Ascending(item.participants)
                   /\ Item(listing, "Chess Club").participants
                        = <<"daniel@mergington.edu", "michael@mergington.edu">>

\* init_db has run on a store with no table and has filled it.
C7_Witness ==
    /\ boot.clean
    /\ boot.before.schema = {}
    /\ boot.before.activities = {}
    /\ activities # {}
    /\ registrations # {}

\* C8 (as claimed): no interleaving of signups lets the INSERT of one of
\* them end as a constraint violation of the store: no finished signup
\* carries the 500 of an unhandled sqlite3.IntegrityError.
C8_SignupIsAtomic ==
    \A t \in Threads :
        Done(t, "signup") => resp[t].exception # "sqlite3.IntegrityError"

(***************************************************************************)
(* C9: under every interleaving, the activities table never changes once   *)
(* it is seeded, and the registrations table changes only in the step in   *)
(* which a signup or unregister ends with 200, and then by the one pair    *)
(* the request names: added by a signup, removed by an unregister.  So a   *)
(* signup or unregister served alone that ends in an error leaves the      *)
(* table it found, and one that succeeds leaves that table with the one    *)
(* pair added or removed.                                                  *)
(***************************************************************************)
C9_AllOrNothing ==
    /\ [](\A t \in Threads :
            (/\ pc[t] = "done" /\ alone[t]
             /\ req[t].op \in {"signup", "unregister"})
                => /\ resp[t].status # 200 => after[t] = before[t]
                   /\ (resp[t].status = 200 /\ req[t].op = "signup")
                        => after[t] = before[t] \cup {PairOf(req[t])}
                   /\ (resp[t].status = 200 /\ req[t].op = "unregister")
                        => after[t] = before[t] \ {PairOf(req[t])})
    /\ [][Started
            => /\ activities' = activities
               /\ schema' = schema
               /\ \A t \in Threads :
                    (pc[t] # "done" /\ pc'[t] = "done"
                        /\ resp'[t].status # 200)
                        => registrations' = registrations
               /\ registrations' # registrations
                    => \E t \in Threads :
                        /\ pc[t] = "commit" /\ pc'[t] = "done"
                        /\ resp'[t].status = 200
                        /\ registrations' =
                            IF req[t].op = "signup"
                            THEN registrations \cup {PairOf(req[t])}
                            ELSE registrations \ {PairOf(req[t])}]_vars

\* A student registered for two activities has left one of them.
C9_Witness ==
    \E t \in Threads :
        /\ Done(t, "unregister") /\ alone[t] /\ resp[t].status = 200
        /\ req[t].activity_name = "Chess Club"
        /\ req[t].email = "daniel@mergington.edu"
        /\ Registered(After(t), "Art Club", "daniel@mergington.edu")

(***************************************************************************)
(* C10: a signup of an existing activity by a student who is not           *)
(* registered for it, served alone, succeeds and adds one registration,    *)
(* however many the activity has, max_participants or more included.       *)
(***************************************************************************)
C10_NoCapacityLimit ==
    \A t \in Threads :
        (/\ Done(t, "signup") /\ alone[t]
         /\ Exists(Store, req[t].activity_name)
         /\ ~Registered(Before(t), req[t].activity_name, req[t].email))
            => /\ resp[t].status = 200
               /\ Registered(After(t), req[t].activity_name, req[t].email)
               /\ Cardinality(EmailsOf(After(t), req[t].activity_name))
                    = Cardinality(EmailsOf(Before(t),
                                           req[t].activity_name)) + 1

\* A signup has succeeded for an activity that already had more
\* registrations than its max_participants.
C10_Witness ==
    \E t \in Threads :
        /\ Done(t, "signup") /\ alone[t] /\ resp[t].status = 200
        /\ Cardinality(EmailsOf(Before(t), req[t].activity_name))
            > MaxParticipants(Store, req[t].activity_name)
====
